---- MODULE Spec2Model ----
(***************************************************************************)
(* ChatCompletion.do / ChatCompletion.ado of                               *)
(* src/qianfan/resources/llm/chat_completion.py as a state machine: the    *)
(* dispatch facade, the alternate (erniebot) backend, and the              *)
(* truncation-continuation loops of the four execution modes.              *)
(*                                                                         *)
(* One or two invocations run against one caller-owned messages object,    *)
(* or do and ado run side by side on equal inputs and equal answers.       *)
(* An invocation suspends at every executor call and at every stream       *)
(* element fetch; the executor's answers are the nondeterministic inputs.  *)
(***************************************************************************)
EXTENDS Integers, Sequences, FiniteSets, TLC

VARIABLES
    DISABLE_EB_SDK,    \* get_config().DISABLE_EB_SDK
    EB_SDK_INSTALLED,  \* get_config().EB_SDK_INSTALLED
    heap,              \* contents of every messages object, by object id
    objType,           \* "list", "QfMessages" or "unalloc", by object id
    args,              \* the arguments of each invocation
    pc,                \* where each invocation stands
    frame,             \* the local variables of each invocation
    calls,             \* requests handed to self._do / self._ado, in order
    received,          \* what the executor answered, in order
    ebCalls,           \* calls of erniebot.ChatCompletion.create / acreate
    emitted,           \* envelopes the streaming producer has yielded
    ret,               \* what do / ado returned to its caller
    amended,           \* number of writes to resp.body["result"]
    contractKept       \* every envelope of the executor has result and is_truncated

vars == <<DISABLE_EB_SDK, EB_SDK_INSTALLED, heap, objType, args, pc, frame,
          calls, received, ebCalls, emitted, ret, amended, contractKept>>

-----------------------------------------------------------------------------
(* Bounds of the exploration *)

\* continuation rounds explored on the non-streaming path
MaxRounds == 2
\* continuation rounds explored on the streaming path
MaxStreamRounds == 2
\* longest stream the executor answers with
MaxStreamLen == 2
\* the same two bounds while two invocations run side by side
MaxConcRounds == 1
MaxConcStreamLen == 1

Inv == {1, 2}

-----------------------------------------------------------------------------
(* Defaults of the signature of do / ado *)

DefaultRetryCount == 1
DefaultRequestTimeout == 60
DefaultBackoffFactor == 0

\* the models the erniebot SDK serves
EbModels == {"ERNIE-Bot-turbo", "ERNIE-Bot"}
Models == EbModels \cup {"BLOOMZ-7B"}

\* the prompt of a continuation round
ContinuePrompt == "继续"

-----------------------------------------------------------------------------
(* Messages objects *)

Caller == <<"caller", 0>>
\* the equal input of the second invocation when the two variants are compared
Caller2 == <<"caller", 2>>
ToListObj(i) == <<"tolist", i>>
CopyObj(i) == <<"copy", i>>
NoObj == <<"none", 0>>
ObjIds == {Caller, Caller2} \cup {ToListObj(i) : i \in Inv} \cup {CopyObj(i) : i \in Inv}

\* do and ado are run side by side, each on its own messages object
Paired == objType[Caller2] # "unalloc"

\* the messages argument of invocation i
CallerOf(i) == IF Paired /\ i = 2 THEN Caller2 ELSE Caller

Other(i) == 3 - i

\* what the caller hands in: one user turn
CallerDicts == << [role |-> "user", content |-> "hi"] >>
CallerQfMessages == << [role |-> "QfRole.User", content |-> "hi"] >>

CallerInput(form) == IF form = "QfMessages" THEN CallerQfMessages ELSE CallerDicts

\* QfRole.X.value
RoleValue(role) ==
    CASE role = "QfRole.User" -> "user"
      [] role = "QfRole.Assistant" -> "assistant"
      [] OTHER -> role

\* QfMessages._to_list(): a new list of {role, content} dicts
ToList(ms) == [k \in 1..Len(ms) |-> [role |-> RoleValue(ms[k].role), content |-> ms[k].content]]

\* msgs.append(cur_content, QfRole.Assistant); msgs.append("继续", QfRole.User)
\* or the two dict appends, by the type of the object
AppendContinuationAssistantOnly(ms, type, cur_content) ==
    IF type = "QfMessages"
    THEN Append(ms, [role |-> "QfRole.Assistant", content |-> cur_content])
    ELSE Append(ms, [role |-> "assistant", content |-> cur_content])

AppendContinuation(ms, type, cur_content) ==
    IF type = "QfMessages"
    THEN Append(Append(ms, [role |-> "QfRole.Assistant", content |-> cur_content]),
                [role |-> "QfRole.User", content |-> ContinuePrompt])
    ELSE Append(Append(ms, [role |-> "assistant", content |-> cur_content]),
                [role |-> "user", content |-> ContinuePrompt])

-----------------------------------------------------------------------------
(* Response envelopes *)

Frag(i, k, j) == "r" \o ToString(i) \o ToString(k) \o ToString(j) \o ";"

\* envelope j of the answer to call k of invocation i
Envelope(i, k, j, trunc) ==
    [id |-> <<i, k, j>>, result |-> Frag(i, k, j), is_truncated |-> trunc,
     keys |-> {"result", "is_truncated"}]

NoEnv ==
    [id |-> <<0, 0, 0>>, result |-> "", is_truncated |-> FALSE,
     keys |-> {"result", "is_truncated"}]

EnvResp(e) == [kind |-> "envelope", env |-> e, items |-> <<>>]
StreamResp(s) == [kind |-> "stream", env |-> NoEnv, items |-> s]
NoResp == [kind |-> "none", env |-> NoEnv, items |-> <<>>]
Producer == [kind |-> "producer", env |-> NoEnv, items |-> <<>>]
Raised == [kind |-> "raised", env |-> NoEnv, items |-> <<>>]

Concurrent == \A i \in Inv : pc[i] # "absent"
StreamLenCap == IF Concurrent THEN MaxConcStreamLen ELSE MaxStreamLen
RoundCap(stream) ==
    IF Concurrent THEN MaxConcRounds
    ELSE IF stream THEN MaxStreamRounds ELSE MaxRounds

\* what an envelope may look like: truncated or complete and, where the
\* executor breaks its contract, with a key missing from its body
Shapes ==
    { [trunc |-> t, lacks |-> {}] : t \in BOOLEAN }
    \cup (IF contractKept THEN {}
          ELSE { [trunc |-> t, lacks |-> {"result"}] : t \in BOOLEAN }
               \cup { [trunc |-> FALSE, lacks |-> {"is_truncated"}] })

Shaped(i, k, j, shape) ==
    [Envelope(i, k, j, shape.trunc) EXCEPT !.keys = @ \ shape.lacks]

\* the envelopes that may stand at place j of the answer to call k
Envelopes(i, k, j) == { Shaped(i, k, j, shape) : shape \in Shapes }

\* the streams the executor may answer call k of invocation i with
Streams(i, k) ==
    UNION { { [j \in 1..n |-> Shaped(i, k, j, f[j])] : f \in [1..n -> Shapes] }
            : n \in 0..StreamLenCap }

\* the answers self._do(..., stream, ...) may give to call k of invocation i
Answers(i, k, stream) ==
    IF stream
    THEN { StreamResp(s) : s \in Streams(i, k) }
    ELSE { EnvResp(e) : e \in Envelopes(i, k, 1) }

\* side by side, the two variants are answered alike: call k of one gets what
\* call k of the other got, if that one was answered already
AnswersTo(i, k, stream) ==
    IF Paired
    THEN IF k <= Len(received[Other(i)])
         THEN {received[Other(i)][k]} \cap Answers(1, k, stream)
         ELSE Answers(1, k, stream)
    ELSE Answers(i, k, stream)

\* what erniebot.ChatCompletion.create / acreate may return
EbAnswers(i, stream) ==
    IF Paired
    THEN IF pc[Other(i)] = "done" /\ ebCalls[Other(i)] # <<>>
         THEN {ret[Other(i)]}
         ELSE Answers(1, 1, stream)
    ELSE Answers(i, 1, stream)

\* call k of invocation i may fail
MayRaise(i, k) ==
    (Paired /\ k <= Len(received[Other(i)])) => received[Other(i)][k] = Raised

\* resp["result"], resp["is_truncated"]: QfResponse reads its body
Result(e) == e.result
IsTruncated(e) == e.is_truncated

\* reading one of these keys off envelope e raises KeyError
KeyError(e, read) == ~(read \subseteq e.keys)

\* resp.body["result"] = entire_content
SetBodyResult(e, text) == [e EXCEPT !.result = text]

-----------------------------------------------------------------------------
(* Requests *)

\* self._do(model, endpoint, stream, retry_count, request_timeout,
\*          backoff_factor, **kwargs) where kwargs["messages"] is object obj,
\* of the given type and contents at the time of the call
Request(a, stream, obj, type, contents) ==
    [model |-> a.model, endpoint |-> a.endpoint, stream |-> stream,
     retry_count |-> a.retry_count, request_timeout |-> a.request_timeout,
     backoff_factor |-> a.backoff_factor, extra |-> a.extra,
     messages |-> contents, messagesType |-> type, messagesObj |-> obj]

-----------------------------------------------------------------------------
(* The alternate backend *)

\* not DISABLE_EB_SDK and EB_SDK_INSTALLED and model in [...]
UseEbSdkIgnoringModel(model) ==
    (~DISABLE_EB_SDK) /\ EB_SDK_INSTALLED

UseEbSdk(model) ==
    (~DISABLE_EB_SDK) /\ EB_SDK_INSTALLED /\ model \in EbModels

\* if model == "ERNIE-Bot": model = "ernie-bot-3.5"
EbModelName(model) == IF model = "ERNIE-Bot" THEN "ernie-bot-3.5" ELSE model

\* str.lower() on the model names in use
Lower(name) ==
    CASE name = "ERNIE-Bot-turbo" -> "ernie-bot-turbo"
      [] name = "ERNIE-Bot" -> "ernie-bot"
      [] name = "BLOOMZ-7B" -> "bloomz-7b"
      [] OTHER -> name

\* erniebot.ChatCompletion.create(model=model.lower(), stream=stream, **kwargs)
EbRequest(a, obj, type, contents) ==
    [model |-> Lower(EbModelName(a.model)), stream |-> a.stream, extra |-> a.extra,
     messages |-> contents, messagesType |-> type, messagesObj |-> obj]

-----------------------------------------------------------------------------
(* Initial states *)

\* the parameters a caller leaves at their defaults, and a caller's own
DefaultParameters ==
    [endpoint |-> "ep", retry_count |-> DefaultRetryCount,
     request_timeout |-> DefaultRequestTimeout,
     backoff_factor |-> DefaultBackoffFactor, extra |-> "temperature=0.2"]

OwnParameters ==
    [endpoint |-> "ep2", retry_count |-> 3, request_timeout |-> 30,
     backoff_factor |-> 2, extra |-> "top_p=0.5"]

Args ==
    { [variant |-> v, model |-> m, endpoint |-> p.endpoint, stream |-> s,
       retry_count |-> p.retry_count, request_timeout |-> p.request_timeout,
       backoff_factor |-> p.backoff_factor, auto_concat_truncate |-> c,
       extra |-> p.extra] :
        v \in {"do", "ado"}, m \in Models, s \in BOOLEAN, c \in BOOLEAN,
        p \in {DefaultParameters, OwnParameters} }

\* the parameters of an invocation
Parameters(a) ==
    [endpoint |-> a.endpoint, retry_count |-> a.retry_count,
     request_timeout |-> a.request_timeout, backoff_factor |-> a.backoff_factor,
     extra |-> a.extra]

IdleArgs ==
    [variant |-> "do", model |-> "BLOOMZ-7B", endpoint |-> "ep", stream |-> FALSE,
     retry_count |-> DefaultRetryCount, request_timeout |-> DefaultRequestTimeout,
     backoff_factor |-> DefaultBackoffFactor, auto_concat_truncate |-> FALSE,
     extra |-> "temperature=0.2"]

EmptyFrame ==
    [kwargs_messages |-> NoObj, msgs |-> NoObj, cur_content |-> "",
     entire_content |-> "", is_truncated |-> FALSE, resp |-> NoResp, idx |-> 0]

\* the clauses of the SDK condition that fail for a model under a configuration
FailingClauses(disable, installed, model) ==
    {c \in {"disabled", "not installed", "other model"} :
        \/ c = "disabled" /\ disable
        \/ c = "not installed" /\ ~installed
        \/ c = "other model" /\ model \notin EbModels}

\* the configurations explored: the SDK condition holds, or one clause of it
\* fails; own parameters are explored with the model the SDK does not serve
InitWith(active) ==
    /\ DISABLE_EB_SDK \in BOOLEAN
    /\ EB_SDK_INSTALLED \in BOOLEAN
    /\ \E form \in {"list", "QfMessages"} :
         /\ heap = [o \in ObjIds |-> IF o = Caller THEN CallerInput(form) ELSE <<>>]
         /\ objType = [o \in ObjIds |-> IF o = Caller THEN form ELSE "unalloc"]
    /\ args \in [Inv -> Args]
    /\ \A i \in Inv \ active : args[i] = IdleArgs
    /\ \A i \in active :
         Cardinality(FailingClauses(DISABLE_EB_SDK, EB_SDK_INSTALLED, args[i].model)) <= 1
    /\ \A i \in active :
         Parameters(args[i]) # DefaultParameters => args[i].model \notin EbModels
    /\ pc = [i \in Inv |-> IF i \in active THEN "start" ELSE "absent"]
    /\ frame = [i \in Inv |-> EmptyFrame]
    /\ calls = [i \in Inv |-> <<>>]
    /\ received = [i \in Inv |-> <<>>]
    /\ ebCalls = [i \in Inv |-> <<>>]
    /\ emitted = [i \in Inv |-> <<>>]
    /\ ret = [i \in Inv |-> NoResp]
    /\ amended = [i \in Inv |-> 0]

\* one invocation of do or ado
Init == InitWith({1}) /\ contractKept = TRUE

\* one invocation with auto_concat_truncate answered by an executor that may
\* leave a key out of an envelope
InitMalformed ==
    /\ InitWith({1})
    /\ contractKept = FALSE
    /\ args[1].auto_concat_truncate
    /\ Parameters(args[1]) = DefaultParameters

\* two invocations handed the same messages object, both asking for continuation
InitConc ==
    /\ InitWith(Inv)
    /\ contractKept = TRUE
    /\ \A i \in Inv : args[i].auto_concat_truncate
    /\ args[1].model = args[2].model
    /\ \A i \in Inv : Parameters(args[i]) = DefaultParameters

\* do and ado side by side: equal arguments, equal messages in an object each
InitPair ==
    /\ DISABLE_EB_SDK \in BOOLEAN
    /\ EB_SDK_INSTALLED \in BOOLEAN
    /\ \E form \in {"list", "QfMessages"} :
         /\ heap = [o \in ObjIds |->
                      IF o \in {Caller, Caller2} THEN CallerInput(form) ELSE <<>>]
         /\ objType = [o \in ObjIds |->
                         IF o \in {Caller, Caller2} THEN form ELSE "unalloc"]
    /\ args \in [Inv -> Args]
    /\ args[1].variant = "do"
    /\ args[2] = [args[1] EXCEPT !.variant = "ado"]
    /\ Cardinality(FailingClauses(DISABLE_EB_SDK, EB_SDK_INSTALLED, args[1].model)) <= 1
    /\ Parameters(args[1]) = DefaultParameters
    /\ pc = [i \in Inv |-> "start"]
    /\ frame = [i \in Inv |-> EmptyFrame]
    /\ calls = [i \in Inv |-> <<>>]
    /\ received = [i \in Inv |-> <<>>]
    /\ ebCalls = [i \in Inv |-> <<>>]
    /\ emitted = [i \in Inv |-> <<>>]
    /\ ret = [i \in Inv |-> NoResp]
    /\ amended = [i \in Inv |-> 0]
    /\ contractKept = TRUE

-----------------------------------------------------------------------------
(* do: lines 236-310 *)

\* lines 236-239: kwargs["messages"]
KwargsMessages(i) ==
    IF objType[CallerOf(i)] = "QfMessages" THEN ToListObj(i) ELSE CallerOf(i)

\* lines 236-264: normalise the messages, then the erniebot SDK or the first
\* self._do call
Do(i) ==
    /\ pc[i] = "start"
    /\ args[i].variant = "do"
    /\ LET km == KwargsMessages(i)
           heap1 == IF km = CallerOf(i) THEN heap
                    ELSE [heap EXCEPT ![km] = ToList(heap[CallerOf(i)])]
           type1 == IF km = CallerOf(i) THEN objType
                    ELSE [objType EXCEPT ![km] = "list"]
       IN  /\ heap' = heap1
           /\ objType' = type1
           /\ frame' = [frame EXCEPT ![i].kwargs_messages = km]
           /\ IF UseEbSdk(args[i].model)
              THEN /\ ebCalls' = [ebCalls EXCEPT ![i] =
                          Append(@, EbRequest(args[i], km, type1[km], heap1[km]))]
                   /\ pc' = [pc EXCEPT ![i] = "eb_wait"]
                   /\ UNCHANGED calls
              ELSE /\ calls' = [calls EXCEPT ![i] =
                          Append(@, Request(args[i], args[i].stream, km, type1[km], heap1[km]))]
                   /\ pc' = [pc EXCEPT ![i] = "first_wait"]
                   /\ UNCHANGED ebCalls
    /\ UNCHANGED <<contractKept, DISABLE_EB_SDK, EB_SDK_INSTALLED, args, received, emitted, ret, amended>>

\* lines 253-255: erniebot.ChatCompletion.create returns, and do returns its result
EbReturn(i) ==
    /\ pc[i] = "eb_wait"
    /\ args[i].variant = "do"
    /\ \E r \in EbAnswers(i, args[i].stream) :
         /\ ret' = [ret EXCEPT ![i] = r]
         /\ pc' = [pc EXCEPT ![i] = "done"]
    /\ UNCHANGED <<contractKept, DISABLE_EB_SDK, EB_SDK_INSTALLED, heap, objType, args, frame,
                   calls, received, ebCalls, emitted, amended>>

\* self._do / self._ado raises: no handler of do, ado or the generators catches
\* it, so the invocation ends there
ExecutorRaisesSwallowed(i) ==
    /\ pc[i] \in {"first_wait", "cont_wait", "gen_wait"}
    /\ MayRaise(i, Len(calls[i]))
    /\ received' = [received EXCEPT ![i] = Append(@, Raised)]
    /\ ret' = [ret EXCEPT ![i] =
           IF pc[i] = "cont_wait"
           THEN EnvResp(SetBodyResult(frame[i].resp.env, frame[i].entire_content))
           ELSE IF pc[i] = "gen_wait" THEN @ ELSE Raised]
    /\ pc' = [pc EXCEPT ![i] = IF pc[i] = "cont_wait" THEN "done" ELSE "raised"]
    /\ UNCHANGED <<contractKept, DISABLE_EB_SDK, EB_SDK_INSTALLED, heap, objType, args, frame,
                   calls, ebCalls, emitted, amended>>

ExecutorRaises(i) ==
    /\ pc[i] \in {"first_wait", "cont_wait", "gen_wait"}
    /\ MayRaise(i, Len(calls[i]))
    /\ received' = [received EXCEPT ![i] = Append(@, Raised)]
    /\ ret' = [ret EXCEPT ![i] = IF pc[i] = "gen_wait" THEN @ ELSE Raised]
    /\ pc' = [pc EXCEPT ![i] = "raised"]
    /\ UNCHANGED <<contractKept, DISABLE_EB_SDK, EB_SDK_INSTALLED, heap, objType, args, frame,
                   calls, ebCalls, emitted, amended>>

\* line 265: if not auto_concat_truncate
DoReturnsFirstAnswerInverted(a) == a.auto_concat_truncate

DoReturnsFirstAnswer(a) == ~a.auto_concat_truncate

\* line 283: is_truncated: bool = resp["is_truncated"]
DoInitialTruncatedAlways(e) == TRUE

DoInitialTruncated(e) == IsTruncated(e)

\* line 284: msgs = copy.deepcopy(messages)
DoWorkingBufferShared(i) == CallerOf(i)

DoWorkingBuffer(i) == CopyObj(i)

\* lines 256-284: the first self._do call returns
DoFirstResp(i) ==
    /\ pc[i] = "first_wait"
    /\ args[i].variant = "do"
    /\ \E r \in AnswersTo(i, 1, args[i].stream) :
         /\ received' = [received EXCEPT ![i] = Append(@, r)]
         /\ IF DoReturnsFirstAnswer(args[i])
            THEN \* lines 265-266
                 /\ ret' = [ret EXCEPT ![i] = r]
                 /\ pc' = [pc EXCEPT ![i] = "done"]
                 /\ UNCHANGED <<heap, objType, frame>>
            ELSE IF args[i].stream
            THEN \* lines 268-279: the generator, with kwargs.pop("messages")
                 /\ ret' = [ret EXCEPT ![i] = Producer]
                 /\ frame' = [frame EXCEPT ![i].msgs = frame[i].kwargs_messages,
                                           ![i].kwargs_messages = NoObj,
                                           ![i].resp = r,
                                           ![i].idx = 0,
                                           ![i].cur_content = ""]
                 /\ pc' = [pc EXCEPT ![i] = "gen_first"]
                 /\ UNCHANGED <<heap, objType>>
            ELSE IF KeyError(r.env, {"result", "is_truncated"})
            THEN \* lines 281 and 283: the read raises
                 /\ ret' = [ret EXCEPT ![i] = Raised]
                 /\ pc' = [pc EXCEPT ![i] = "raised"]
                 /\ UNCHANGED <<heap, objType, frame>>
            ELSE \* lines 280-284
                 LET m == DoWorkingBuffer(i) IN
                 /\ frame' = [frame EXCEPT ![i].cur_content = Result(r.env),
                                           ![i].entire_content = Result(r.env),
                                           ![i].is_truncated = DoInitialTruncated(r.env),
                                           ![i].resp = r,
                                           ![i].msgs = m]
                 /\ heap' = IF m = CallerOf(i) THEN heap ELSE [heap EXCEPT ![m] = heap[CallerOf(i)]]
                 /\ objType' = IF m = CallerOf(i) THEN objType
                               ELSE [objType EXCEPT ![m] = objType[CallerOf(i)]]
                 /\ pc' = [pc EXCEPT ![i] = "loop"]
                 /\ UNCHANGED ret
    /\ UNCHANGED <<contractKept, DISABLE_EB_SDK, EB_SDK_INSTALLED, args, calls, ebCalls, emitted, amended>>

\* lines 294-301 and 362-370: the continuation call is given the model, endpoint,
\* retry_count, request_timeout, backoff_factor and **kwargs of the invocation
ContinuationArgsDefaulted(a) ==
    [a EXCEPT !.retry_count = DefaultRetryCount,
              !.request_timeout = DefaultRequestTimeout,
              !.backoff_factor = DefaultBackoffFactor]

ContinuationArgs(a) == a

\* lines 285 and 353: while is_truncated
WhileTruncatedUpToOneRound(is_truncated, rounds) == is_truncated /\ rounds < 1

WhileTruncated(is_truncated, rounds) == is_truncated

\* lines 292 and 360: cur_content = ""
ResetContentKept(cur_content) == cur_content

ResetContent(cur_content) == ""

\* lines 285-302 and 310: the head of the while loop; a truncated reply appends
\* the continuation pair and issues the next call, a complete one is returned
DoLoop(i) ==
    /\ pc[i] = "loop"
    /\ args[i].variant = "do"
    /\ IF WhileTruncated(frame[i].is_truncated, Len(calls[i]) - 1)
       THEN /\ Len(calls[i]) - 1 < RoundCap(FALSE)
            /\ LET m == frame[i].msgs
                   ms == AppendContinuation(heap[m], objType[m], frame[i].cur_content)
               IN  /\ heap' = [heap EXCEPT ![m] = ms]
                   /\ frame' = [frame EXCEPT ![i].cur_content = ResetContent(@),
                                             ![i].kwargs_messages = m]
                   /\ calls' = [calls EXCEPT ![i] =
                          Append(@, Request(ContinuationArgs(args[i]), FALSE, m, objType[m], ms))]
            /\ pc' = [pc EXCEPT ![i] = "cont_wait"]
            /\ UNCHANGED ret
       ELSE /\ ret' = [ret EXCEPT ![i] = frame[i].resp]
            /\ pc' = [pc EXCEPT ![i] = "done"]
            /\ UNCHANGED <<heap, frame, calls>>
    /\ UNCHANGED <<contractKept, DISABLE_EB_SDK, EB_SDK_INSTALLED, objType, args, received, ebCalls,
                   emitted, amended>>

\* line 305: entire_content += resp["result"]
EntireContentPrepended(entire_content, e) == Result(e) \o entire_content

EntireContentLastOnly(entire_content, e) == Result(e)

EntireContent(entire_content, e) == entire_content \o Result(e)

\* lines 306-307: if not is_truncated: resp.body["result"] = entire_content
DoAmendsEveryAnswer(is_truncated) == TRUE

DoAmends(is_truncated) == ~is_truncated

\* lines 302-309: a continuation call returns
DoContResp(i) ==
    /\ pc[i] = "cont_wait"
    /\ args[i].variant = "do"
    /\ \E r \in AnswersTo(i, Len(calls[i]), FALSE) :
         LET entire == EntireContent(frame[i].entire_content, r.env)
             amend == DoAmends(IsTruncated(r.env))
             resp == IF amend THEN EnvResp(SetBodyResult(r.env, entire)) ELSE r
         IN  /\ received' = [received EXCEPT ![i] = Append(@, r)]
             /\ IF KeyError(r.env, {"result", "is_truncated"})
                THEN \* lines 304-306: the read raises
                     /\ ret' = [ret EXCEPT ![i] = Raised]
                     /\ pc' = [pc EXCEPT ![i] = "raised"]
                     /\ UNCHANGED <<frame, amended>>
                ELSE /\ frame' = [frame EXCEPT ![i].cur_content = @ \o Result(r.env),
                                               ![i].entire_content = entire,
                                               ![i].is_truncated = IsTruncated(r.env),
                                               ![i].resp = resp]
                     /\ amended' = [amended EXCEPT ![i] = IF amend THEN @ + 1 ELSE @]
                     /\ IF ~IsTruncated(r.env)
                        THEN \* line 308
                             /\ ret' = [ret EXCEPT ![i] = resp]
                             /\ pc' = [pc EXCEPT ![i] = "done"]
                        ELSE /\ pc' = [pc EXCEPT ![i] = "loop"]
                             /\ UNCHANGED ret
    /\ UNCHANGED <<contractKept, DISABLE_EB_SDK, EB_SDK_INSTALLED, heap, objType, args, calls,
                   ebCalls, emitted>>

-----------------------------------------------------------------------------
(* _stream_concat_truncated: lines 348-377 *)

\* lines 351 and 377: yield r
YieldTwice(out, r) == Append(Append(out, r), r)

Yield(out, r) == Append(out, r)

\* line 352: is_truncated: bool = True
StreamInitialTruncated(first_resp) == TRUE

\* line 374: is_truncated = r["is_truncated"]
StreamNextTruncatedSticky(is_truncated, e) == is_truncated \/ IsTruncated(e)

StreamNextTruncated(is_truncated, e) == IsTruncated(e)

\* lines 349 and 372: `for r in ...` takes the next envelope while there is one
HasNextFirstOnly(items, idx) == idx < Len(items) /\ idx < 1

HasNext(items, idx) == idx < Len(items)

\* lines 348-352: one step of `for r in first_resp`
StreamFirstNext(i) ==
    /\ pc[i] = "gen_first"
    /\ args[i].variant = "do"
    /\ LET items == frame[i].resp.items
           k == frame[i].idx + 1
       IN  IF HasNext(items, frame[i].idx)
           THEN IF KeyError(items[k], {"result"})
                THEN \* line 350: the read raises before the yield
                     /\ pc' = [pc EXCEPT ![i] = "raised"]
                     /\ UNCHANGED <<frame, emitted>>
                ELSE /\ frame' = [frame EXCEPT ![i].cur_content = @ \o Result(items[k]),
                                               ![i].idx = k]
                     /\ emitted' = [emitted EXCEPT ![i] = Yield(@, items[k])]
                     /\ UNCHANGED pc
           ELSE /\ frame' = [frame EXCEPT ![i].is_truncated = StreamInitialTruncated(items)]
                /\ pc' = [pc EXCEPT ![i] = "gen_loop"]
                /\ UNCHANGED emitted
    /\ UNCHANGED <<contractKept, DISABLE_EB_SDK, EB_SDK_INSTALLED, heap, objType, args, calls,
                   received, ebCalls, ret, amended>>

\* lines 353-370: the head of the while loop of the generator
StreamLoop(i) ==
    /\ pc[i] = "gen_loop"
    /\ args[i].variant = "do"
    /\ IF WhileTruncated(frame[i].is_truncated, Len(calls[i]) - 1)
       THEN /\ Len(calls[i]) - 1 < RoundCap(TRUE)
            /\ LET m == frame[i].msgs
                   ms == AppendContinuation(heap[m], objType[m], frame[i].cur_content)
               IN  /\ heap' = [heap EXCEPT ![m] = ms]
                   /\ frame' = [frame EXCEPT ![i].cur_content = ResetContent(@),
                                             ![i].kwargs_messages = m]
                   /\ calls' = [calls EXCEPT ![i] =
                          Append(@, Request(ContinuationArgs(args[i]), TRUE, m, objType[m], ms))]
            /\ pc' = [pc EXCEPT ![i] = "gen_wait"]
       ELSE /\ pc' = [pc EXCEPT ![i] = "done"]
            /\ UNCHANGED <<heap, frame, calls>>
    /\ UNCHANGED <<contractKept, DISABLE_EB_SDK, EB_SDK_INSTALLED, objType, args, received, ebCalls,
                   emitted, ret, amended>>

\* lines 353-372: nothing assigns is_truncated between the test of the loop and
\* the first envelope of the new stream
TruncatedBeforeStreamCleared(is_truncated) == FALSE

TruncatedBeforeStream(is_truncated) == is_truncated

\* lines 362-372: the continuation call returns its stream
StreamContResp(i) ==
    /\ pc[i] = "gen_wait"
    /\ args[i].variant = "do"
    /\ \E r \in AnswersTo(i, Len(calls[i]), TRUE) :
         /\ received' = [received EXCEPT ![i] = Append(@, r)]
         /\ frame' = [frame EXCEPT ![i].resp = r, ![i].idx = 0,
                                   ![i].is_truncated = TruncatedBeforeStream(@)]
    /\ pc' = [pc EXCEPT ![i] = "gen_cont"]
    /\ UNCHANGED <<contractKept, DISABLE_EB_SDK, EB_SDK_INSTALLED, heap, objType, args, calls,
                   ebCalls, emitted, ret, amended>>

\* lines 372-377: one step of `for r in resp`
StreamContNext(i) ==
    /\ pc[i] = "gen_cont"
    /\ args[i].variant = "do"
    /\ LET items == frame[i].resp.items
           k == frame[i].idx + 1
       IN  IF HasNext(items, frame[i].idx)
           THEN IF KeyError(items[k], {"result", "is_truncated"})
                THEN \* lines 373-374: the read raises before the yield
                     /\ pc' = [pc EXCEPT ![i] = "raised"]
                     /\ UNCHANGED <<frame, emitted>>
                ELSE /\ frame' = [frame EXCEPT ![i].cur_content = @ \o Result(items[k]),
                                               ![i].is_truncated = StreamNextTruncated(@, items[k]),
                                               ![i].idx = k]
                     /\ emitted' = [emitted EXCEPT ![i] = Yield(@, items[k])]
                     /\ UNCHANGED pc
           ELSE /\ pc' = [pc EXCEPT ![i] = "gen_loop"]
                /\ UNCHANGED <<frame, emitted>>
    /\ UNCHANGED <<contractKept, DISABLE_EB_SDK, EB_SDK_INSTALLED, heap, objType, args, calls,
                   received, ebCalls, ret, amended>>

-----------------------------------------------------------------------------
(* ado: lines 431-506 *)

\* lines 431-459: normalise the messages, then the erniebot SDK or the first
\* self._ado call
Ado(i) ==
    /\ pc[i] = "start"
    /\ args[i].variant = "ado"
    /\ LET km == IF objType[CallerOf(i)] = "QfMessages" THEN ToListObj(i) ELSE CallerOf(i)
           heap1 == IF km = CallerOf(i) THEN heap
                    ELSE [heap EXCEPT ![km] = ToList(heap[CallerOf(i)])]
           type1 == IF km = CallerOf(i) THEN objType
                    ELSE [objType EXCEPT ![km] = "list"]
       IN  /\ heap' = heap1
           /\ objType' = type1
           /\ frame' = [frame EXCEPT ![i].kwargs_messages = km]
           /\ IF (~DISABLE_EB_SDK) /\ EB_SDK_INSTALLED /\ args[i].model \in EbModels
              THEN /\ ebCalls' = [ebCalls EXCEPT ![i] =
                          Append(@, EbRequest(args[i], km, type1[km], heap1[km]))]
                   /\ pc' = [pc EXCEPT ![i] = "eb_wait"]
                   /\ UNCHANGED calls
              ELSE /\ calls' = [calls EXCEPT ![i] =
                          Append(@, Request(args[i], args[i].stream, km, type1[km], heap1[km]))]
                   /\ pc' = [pc EXCEPT ![i] = "first_wait"]
                   /\ UNCHANGED ebCalls
    /\ UNCHANGED <<contractKept, DISABLE_EB_SDK, EB_SDK_INSTALLED, args, received, emitted, ret, amended>>

\* lines 448-450: erniebot.ChatCompletion.acreate returns, and ado returns its result
AsyncEbReturn(i) ==
    /\ pc[i] = "eb_wait"
    /\ args[i].variant = "ado"
    /\ \E r \in EbAnswers(i, args[i].stream) :
         /\ ret' = [ret EXCEPT ![i] = r]
         /\ pc' = [pc EXCEPT ![i] = "done"]
    /\ UNCHANGED <<contractKept, DISABLE_EB_SDK, EB_SDK_INSTALLED, heap, objType, args, frame,
                   calls, received, ebCalls, emitted, amended>>

\* lines 451-480: the first self._ado call returns
AdoFirstResp(i) ==
    /\ pc[i] = "first_wait"
    /\ args[i].variant = "ado"
    /\ \E r \in AnswersTo(i, 1, args[i].stream) :
         /\ received' = [received EXCEPT ![i] = Append(@, r)]
         /\ IF ~args[i].auto_concat_truncate
            THEN \* lines 460-461
                 /\ ret' = [ret EXCEPT ![i] = r]
                 /\ pc' = [pc EXCEPT ![i] = "done"]
                 /\ UNCHANGED <<heap, objType, frame>>
            ELSE IF args[i].stream
            THEN \* lines 462-473: the async generator, with kwargs.pop("messages")
                 /\ ret' = [ret EXCEPT ![i] = Producer]
                 /\ frame' = [frame EXCEPT ![i].msgs = frame[i].kwargs_messages,
                                           ![i].kwargs_messages = NoObj,
                                           ![i].resp = r,
                                           ![i].idx = 0,
                                           ![i].cur_content = ""]
                 /\ pc' = [pc EXCEPT ![i] = "gen_first"]
                 /\ UNCHANGED <<heap, objType>>
            ELSE IF KeyError(r.env, {"result", "is_truncated"})
            THEN \* lines 476 and 478: the read raises
                 /\ ret' = [ret EXCEPT ![i] = Raised]
                 /\ pc' = [pc EXCEPT ![i] = "raised"]
                 /\ UNCHANGED <<heap, objType, frame>>
            ELSE \* lines 475-480: msgs = copy.deepcopy(messages)
                 LET m == CopyObj(i) IN
                 /\ frame' = [frame EXCEPT ![i].cur_content = Result(r.env),
                                           ![i].entire_content = Result(r.env),
                                           ![i].is_truncated = IsTruncated(r.env),
                                           ![i].resp = r,
                                           ![i].msgs = m]
                 /\ heap' = [heap EXCEPT ![m] = heap[CallerOf(i)]]
                 /\ objType' = [objType EXCEPT ![m] = objType[CallerOf(i)]]
                 /\ pc' = [pc EXCEPT ![i] = "loop"]
                 /\ UNCHANGED ret
    /\ UNCHANGED <<contractKept, DISABLE_EB_SDK, EB_SDK_INSTALLED, args, calls, ebCalls, emitted, amended>>

\* lines 481-498 and 506: the head of the while loop; the continuation call is
\* issued with the caller's `stream`, which is false on this path
AdoLoop(i) ==
    /\ pc[i] = "loop"
    /\ args[i].variant = "ado"
    /\ IF frame[i].is_truncated
       THEN /\ Len(calls[i]) - 1 < RoundCap(FALSE)
            /\ LET m == frame[i].msgs
                   ms == AppendContinuation(heap[m], objType[m], frame[i].cur_content)
               IN  /\ heap' = [heap EXCEPT ![m] = ms]
                   /\ frame' = [frame EXCEPT ![i].cur_content = "",
                                             ![i].kwargs_messages = m]
                   /\ calls' = [calls EXCEPT ![i] =
                          Append(@, Request(args[i], args[i].stream, m, objType[m], ms))]
            /\ pc' = [pc EXCEPT ![i] = "cont_wait"]
            /\ UNCHANGED ret
       ELSE /\ ret' = [ret EXCEPT ![i] = frame[i].resp]
            /\ pc' = [pc EXCEPT ![i] = "done"]
            /\ UNCHANGED <<heap, frame, calls>>
    /\ UNCHANGED <<contractKept, DISABLE_EB_SDK, EB_SDK_INSTALLED, objType, args, received, ebCalls,
                   emitted, amended>>

\* lines 498-505: a continuation call returns
AdoContResp(i) ==
    /\ pc[i] = "cont_wait"
    /\ args[i].variant = "ado"
    /\ \E r \in AnswersTo(i, Len(calls[i]), FALSE) :
         LET entire == frame[i].entire_content \o Result(r.env)
             final == EnvResp(SetBodyResult(r.env, entire))
         IN  /\ received' = [received EXCEPT ![i] = Append(@, r)]
             /\ IF KeyError(r.env, {"result", "is_truncated"})
                THEN \* lines 499-501: the read raises
                     /\ ret' = [ret EXCEPT ![i] = Raised]
                     /\ pc' = [pc EXCEPT ![i] = "raised"]
                     /\ UNCHANGED <<frame, amended>>
                ELSE IF ~IsTruncated(r.env)
                THEN /\ frame' = [frame EXCEPT ![i].cur_content = @ \o Result(r.env),
                                               ![i].entire_content = entire,
                                               ![i].is_truncated = FALSE,
                                               ![i].resp = final]
                     /\ amended' = [amended EXCEPT ![i] = @ + 1]
                     /\ ret' = [ret EXCEPT ![i] = final]
                     /\ pc' = [pc EXCEPT ![i] = "done"]
                ELSE /\ frame' = [frame EXCEPT ![i].cur_content = @ \o Result(r.env),
                                               ![i].entire_content = entire,
                                               ![i].is_truncated = TRUE,
                                               ![i].resp = r]
                     /\ pc' = [pc EXCEPT ![i] = "loop"]
                     /\ UNCHANGED <<ret, amended>>
    /\ UNCHANGED <<contractKept, DISABLE_EB_SDK, EB_SDK_INSTALLED, heap, objType, args, calls,
                   ebCalls, emitted>>

-----------------------------------------------------------------------------
(* _async_stream_concat_truncated: lines 522-550 *)

\* lines 522-526: one step of `async for r in first_resp`
AsyncStreamFirstNext(i) ==
    /\ pc[i] = "gen_first"
    /\ args[i].variant = "ado"
    /\ LET items == frame[i].resp.items
           k == frame[i].idx + 1
       IN  IF k <= Len(items)
           THEN IF KeyError(items[k], {"result"})
                THEN \* line 524: the read raises before the yield
                     /\ pc' = [pc EXCEPT ![i] = "raised"]
                     /\ UNCHANGED <<frame, emitted>>
                ELSE /\ frame' = [frame EXCEPT ![i].cur_content = @ \o Result(items[k]),
                                               ![i].idx = k]
                     /\ emitted' = [emitted EXCEPT ![i] = Append(@, items[k])]
                     /\ UNCHANGED pc
           ELSE /\ frame' = [frame EXCEPT ![i].is_truncated = TRUE]
                /\ pc' = [pc EXCEPT ![i] = "gen_loop"]
                /\ UNCHANGED emitted
    /\ UNCHANGED <<contractKept, DISABLE_EB_SDK, EB_SDK_INSTALLED, heap, objType, args, calls,
                   received, ebCalls, ret, amended>>

\* lines 527-545: the head of the while loop of the async generator
AsyncStreamLoop(i) ==
    /\ pc[i] = "gen_loop"
    /\ args[i].variant = "ado"
    /\ IF frame[i].is_truncated
       THEN /\ Len(calls[i]) - 1 < RoundCap(TRUE)
            /\ LET m == frame[i].msgs
                   ms == AppendContinuation(heap[m], objType[m], frame[i].cur_content)
               IN  /\ heap' = [heap EXCEPT ![m] = ms]
                   /\ frame' = [frame EXCEPT ![i].cur_content = "",
                                             ![i].kwargs_messages = m]
                   /\ calls' = [calls EXCEPT ![i] =
                          Append(@, Request(args[i], TRUE, m, objType[m], ms))]
            /\ pc' = [pc EXCEPT ![i] = "gen_wait"]
       ELSE /\ pc' = [pc EXCEPT ![i] = "done"]
            /\ UNCHANGED <<heap, frame, calls>>
    /\ UNCHANGED <<contractKept, DISABLE_EB_SDK, EB_SDK_INSTALLED, objType, args, received, ebCalls,
                   emitted, ret, amended>>

\* lines 537-547: the continuation call returns its stream
AsyncStreamContResp(i) ==
    /\ pc[i] = "gen_wait"
    /\ args[i].variant = "ado"
    /\ \E r \in AnswersTo(i, Len(calls[i]), TRUE) :
         /\ received' = [received EXCEPT ![i] = Append(@, r)]
         /\ frame' = [frame EXCEPT ![i].resp = r, ![i].idx = 0]
    /\ pc' = [pc EXCEPT ![i] = "gen_cont"]
    /\ UNCHANGED <<contractKept, DISABLE_EB_SDK, EB_SDK_INSTALLED, heap, objType, args, calls,
                   ebCalls, emitted, ret, amended>>

\* lines 547-550: one step of `async for r in resp`
AsyncStreamContNext(i) ==
    /\ pc[i] = "gen_cont"
    /\ args[i].variant = "ado"
    /\ LET items == frame[i].resp.items
           k == frame[i].idx + 1
       IN  IF k <= Len(items)
           THEN IF KeyError(items[k], {"result", "is_truncated"})
                THEN \* lines 548-549: the read raises before the yield
                     /\ pc' = [pc EXCEPT ![i] = "raised"]
                     /\ UNCHANGED <<frame, emitted>>
                ELSE /\ frame' = [frame EXCEPT ![i].cur_content = @ \o Result(items[k]),
                                               ![i].is_truncated = IsTruncated(items[k]),
                                               ![i].idx = k]
                     /\ emitted' = [emitted EXCEPT ![i] = Append(@, items[k])]
                     /\ UNCHANGED pc
           ELSE /\ pc' = [pc EXCEPT ![i] = "gen_loop"]
                /\ UNCHANGED <<frame, emitted>>
    /\ UNCHANGED <<contractKept, DISABLE_EB_SDK, EB_SDK_INSTALLED, heap, objType, args, calls,
                   received, ebCalls, ret, amended>>

-----------------------------------------------------------------------------
(* The specifications *)

Next ==
    \E i \in Inv :
        \/ Do(i)
        \/ EbReturn(i)
        \/ DoFirstResp(i)
        \/ DoLoop(i)
        \/ DoContResp(i)
        \/ StreamFirstNext(i)
        \/ StreamLoop(i)
        \/ StreamContResp(i)
        \/ StreamContNext(i)
        \/ Ado(i)
        \/ AsyncEbReturn(i)
        \/ AdoFirstResp(i)
        \/ AdoLoop(i)
        \/ AdoContResp(i)
        \/ AsyncStreamFirstNext(i)
        \/ AsyncStreamLoop(i)
        \/ AsyncStreamContResp(i)
        \/ AsyncStreamContNext(i)
        \/ ExecutorRaises(i)

Spec == Init /\ [][Next]_vars

SpecConc == InitConc /\ [][Next]_vars

SpecPair == InitPair /\ [][Next]_vars

SpecMalformed == InitMalformed /\ [][Next]_vars

\* the steps of invocation i that its own code, its consumer and an answering
\* executor take
Progress(i) ==
    \/ Do(i) \/ EbReturn(i) \/ DoFirstResp(i) \/ DoLoop(i) \/ DoContResp(i)
    \/ StreamFirstNext(i) \/ StreamLoop(i) \/ StreamContResp(i) \/ StreamContNext(i)
    \/ Ado(i) \/ AsyncEbReturn(i) \/ AdoFirstResp(i) \/ AdoLoop(i) \/ AdoContResp(i)
    \/ AsyncStreamFirstNext(i) \/ AsyncStreamLoop(i) \/ AsyncStreamContResp(i)
    \/ AsyncStreamContNext(i)

\* do / ado run on once called, every call is answered, every stream is finite
\* and the consumer of a producer keeps asking for the next envelope
Fairness == \A i \in Inv : WF_vars(Progress(i))

\* one invocation with the SDK enabled and installed: the model alone decides
\* between the SDK and the request executor; parameters at their defaults
InitLive ==
    /\ Init
    /\ ~DISABLE_EB_SDK /\ EB_SDK_INSTALLED
    /\ Parameters(args[1]) = DefaultParameters

SpecLive == InitLive /\ [][Next]_vars /\ Fairness

-----------------------------------------------------------------------------
(* Vocabulary of the properties *)

\* invocation i went to the request executor, not to the erniebot SDK
OnExecutorPath(i) == calls[i] # <<>>

NonStreamConcat(i) ==
    OnExecutorPath(i) /\ args[i].auto_concat_truncate /\ ~args[i].stream

StreamConcat(i) ==
    OnExecutorPath(i) /\ args[i].auto_concat_truncate /\ args[i].stream

\* the envelopes of one answer, in order
Items(r) == IF r.kind = "envelope" THEN <<r.env>> ELSE r.items

RECURSIVE ConcatResults(_)
\* the result texts of a sequence of envelopes, joined in order
ConcatResults(es) ==
    IF es = <<>> THEN "" ELSE es[1].result \o ConcatResults(Tail(es))

RECURSIVE Flatten(_)
\* the envelopes of a sequence of answers, in call order
Flatten(rs) ==
    IF rs = <<>> THEN <<>> ELSE Items(rs[1]) \o Flatten(Tail(rs))

Last(q) == q[Len(q)]
Front(q) == SubSeq(q, 1, Len(q) - 1)

\* the caller's object holds what the caller put there
CallerUntouched == heap[Caller] = CallerInput(objType[Caller])

\* no messages object of invocation i has grown
NothingAppended(i) ==
    /\ CallerUntouched
    /\ heap[CopyObj(i)] \in {<<>>, CallerInput(objType[Caller])}
    /\ heap[ToListObj(i)] \in {<<>>, ToList(CallerInput(objType[Caller]))}

-----------------------------------------------------------------------------
(* C1 *)

\* C1: non-streaming do/ado with auto_concat_truncate: once an answer that is
\* not truncated has arrived after N-1 truncated ones, no further call is
\* issued (N calls in all), and the envelope returned carries the N results
\* joined in call order and is_truncated = false.
C1_NonStreamConcatenates ==
    \A i \in Inv :
        (NonStreamConcat(i) /\ received[i] # <<>>
            /\ Last(received[i]).kind = "envelope"
            /\ ~Last(received[i]).env.is_truncated)
        => /\ \A k \in 1..(Len(received[i]) - 1) : received[i][k].env.is_truncated
           /\ Len(calls[i]) = Len(received[i])
           /\ pc[i] \in {"loop", "done"}
           /\ pc[i] = "done" =>
                /\ ret[i].kind = "envelope"
                /\ ret[i].env.result = ConcatResults(Flatten(received[i]))
                /\ ~ret[i].env.is_truncated
                /\ ret[i].env.id = Last(received[i]).env.id

\* three calls, the first two truncated: the three fragments come back joined
C1_Witness ==
    /\ pc[1] = "done" /\ NonStreamConcat(1)
    /\ Len(calls[1]) = 3
    /\ received[1][1].env.is_truncated /\ received[1][2].env.is_truncated
    /\ ret[1].env.result = Frag(1, 1, 1) \o Frag(1, 2, 1) \o Frag(1, 3, 1)

-----------------------------------------------------------------------------
(* C2 *)

\* C2: non-streaming do/ado with auto_concat_truncate: when the first answer
\* is not truncated, that answer is returned as received, its body is not
\* written, no second call is issued and no messages object grows.
C2_CompleteFirstAnswerReturned ==
    \A i \in Inv :
        (NonStreamConcat(i) /\ received[i] # <<>>
            /\ received[i][1].kind = "envelope"
            /\ ~received[i][1].env.is_truncated)
        => /\ Len(calls[i]) = 1
           /\ Len(received[i]) = 1
           /\ amended[i] = 0
           /\ NothingAppended(i)
           /\ pc[i] \in {"loop", "done"}
           /\ pc[i] = "done" => ret[i] = received[i][1]

C2_Witness ==
    /\ pc[1] = "done" /\ NonStreamConcat(1)
    /\ ~received[1][1].env.is_truncated
    /\ ret[1] = received[1][1]
    /\ Len(calls[1]) = 1

-----------------------------------------------------------------------------
(* C3 *)

\* C3: streaming do/ado with auto_concat_truncate: a continuation call is
\* issued only if the first stream's last envelope had is_truncated = true;
\* otherwise there is one executor call in all and nothing is appended.
C3_ContinuationOnlyIfTruncated ==
    \A i \in Inv :
        (StreamConcat(i) /\ received[i] # <<>> /\ received[i][1].kind = "stream")
        => LET first == received[i][1].items
               truncated == first # <<>> /\ Last(first).is_truncated
           IN  ~truncated => (Len(calls[i]) = 1 /\ NothingAppended(i))

-----------------------------------------------------------------------------
(* C4 *)

\* how many envelopes of its latest answer the producer has fetched
Consumed(i) ==
    IF pc[i] \in {"gen_first", "gen_cont"}
    THEN frame[i].idx
    ELSE Len(Items(Last(received[i])))

\* C4: streaming do/ado with auto_concat_truncate: what the producer has
\* emitted is, envelope for envelope, the answers of all earlier calls in call
\* order followed by the fetched part of the latest answer; when the producer
\* is exhausted it has emitted every envelope of every call, once.
C4_ProducerReEmitsInOrder ==
    \A i \in Inv :
        (StreamConcat(i) /\ received[i] # <<>> /\ received[i][1].kind = "stream")
        => /\ emitted[i] = Flatten(Front(received[i]))
                             \o SubSeq(Items(Last(received[i])), 1, Consumed(i))
           /\ pc[i] = "done" =>
                /\ emitted[i] = Flatten(received[i])
                /\ Len(received[i]) = Len(calls[i])

\* two envelopes of the first call, then two of the second, the fourth final
C4_Witness ==
    /\ pc[1] = "done" /\ StreamConcat(1)
    /\ Len(calls[1]) = 2
    /\ Len(received[1][1].items) = 2 /\ Len(received[1][2].items) = 2
    /\ Len(emitted[1]) = 4
    /\ ~emitted[1][4].is_truncated
    /\ emitted[1][2].id = <<1, 1, 2>> /\ emitted[1][3].id = <<1, 2, 1>>

-----------------------------------------------------------------------------
(* C5 *)

\* C5: non-streaming do/ado with auto_concat_truncate: whatever the number of
\* continuation rounds, the caller's messages object keeps its contents; the
\* pairs go to the deep copy, which is the object of every continuation call.
C5_CallerInputKept ==
    \A i \in Inv :
        NonStreamConcat(i)
        => /\ CallerUntouched
           /\ heap[ToListObj(i)] \in {<<>>, ToList(CallerInput(objType[Caller]))}
           /\ \A k \in 2..Len(calls[i]) : calls[i][k].messagesObj = CopyObj(i)
           /\ Len(calls[i]) >= 2 =>
                Len(heap[CopyObj(i)]) = Len(heap[Caller]) + 2 * (Len(calls[i]) - 1)

C5_Witness ==
    /\ pc[1] = "done" /\ NonStreamConcat(1)
    /\ Len(calls[1]) = 3
    /\ Len(heap[CopyObj(1)]) = Len(CallerInput(objType[Caller])) + 4
    /\ CallerUntouched

-----------------------------------------------------------------------------
(* C6 *)

\* C6: streaming do/ado with auto_concat_truncate and a raw list: once the
\* producer is exhausted the caller's list is as the caller left it.
C6_StreamCallerListKept ==
    \A i \in Inv :
        (StreamConcat(i) /\ objType[Caller] = "list" /\ pc[i] = "done")
        => CallerUntouched

-----------------------------------------------------------------------------
(* C7 *)

RECURSIVE OwnPairs(_, _, _)
\* the pairs invocation i appends before its call k: for each earlier call the
\* text of that call, then the prompt
OwnPairs(i, k, type) ==
    IF k <= 1 THEN <<>>
    ELSE AppendContinuation(OwnPairs(i, k - 1, type), type,
                            ConcatResults(Items(received[i][k - 1])))

\* C7: two invocations given the same messages object, each with
\* auto_concat_truncate: the messages of every continuation request of an
\* invocation are the caller's original messages followed by that
\* invocation's own pairs, and nothing else.
C7_RequestsHoldOwnPairsOnly ==
    \A i \in Inv :
        args[i].auto_concat_truncate =>
            \A k \in 2..Len(calls[i]) :
                ToList(calls[i][k].messages)
                    = ToList(CallerInput(objType[Caller]))
                        \o ToList(OwnPairs(i, k, calls[i][k].messagesType))

-----------------------------------------------------------------------------
(* C8 *)

\* C8: an invocation without auto_concat_truncate that goes to the request
\* executor issues one call and returns its answer, envelope or stream, as
\* received, truncated or not; nothing is appended and no body is written.
C8_NoConcatReturnsFirstAnswer ==
    \A i \in Inv :
        (OnExecutorPath(i) /\ ~args[i].auto_concat_truncate)
        => /\ Len(calls[i]) = 1
           /\ amended[i] = 0
           /\ NothingAppended(i)
           /\ emitted[i] = <<>>
           /\ pc[i] \in {"first_wait", "done", "raised"}
           /\ pc[i] = "done" => (Len(received[i]) = 1 /\ ret[i] = received[i][1])

\* a truncated envelope handed back as it came
C8_Witness ==
    /\ pc[1] = "done" /\ OnExecutorPath(1) /\ ~args[1].auto_concat_truncate
    /\ ret[1].kind = "envelope" /\ ret[1].env.is_truncated
    /\ ret[1] = received[1][1]

-----------------------------------------------------------------------------
(* C9 *)

\* C9: when an executor call raises, first or continuation, the invocation
\* ends raised: the failed call is the last one issued, it is not answered a
\* second time, and a non-streaming do/ado hands back no envelope.
C9_FailureAbortsTheReply ==
    \A i \in Inv :
        /\ \A k \in 1..(Len(received[i]) - 1) : received[i][k] # Raised
        /\ (received[i] # <<>> /\ Last(received[i]) = Raised)
            => /\ pc[i] = "raised"
               /\ Len(calls[i]) = Len(received[i])
               /\ ~args[i].stream => ret[i] = Raised
        /\ pc[i] = "raised" => (received[i] # <<>> /\ Last(received[i]) = Raised)

\* the second call of a non-streaming continuation fails
C9_Witness ==
    /\ pc[1] = "raised" /\ NonStreamConcat(1)
    /\ Len(calls[1]) = 2
    /\ received[1][1].env.is_truncated
    /\ ret[1] = Raised

-----------------------------------------------------------------------------
(* C10 *)

\* C10: an invocation goes to the erniebot SDK exactly when DISABLE_EB_SDK is
\* off, the SDK is installed and the model is one of the two it serves; then
\* the request executor is never called, and the SDK's answer is returned as
\* it is, with no continuation round, also when auto_concat_truncate is set
\* and the answer is truncated.
C10_SdkDelegation ==
    \A i \in Inv :
        pc[i] \notin {"absent", "start"}
        => /\ (ebCalls[i] # <<>>)
                <=> ((~DISABLE_EB_SDK) /\ EB_SDK_INSTALLED /\ args[i].model \in EbModels)
           /\ (ebCalls[i] # <<>>) <=> (calls[i] = <<>>)
           /\ ebCalls[i] # <<>> =>
                /\ Len(ebCalls[i]) = 1
                /\ received[i] = <<>>
                /\ emitted[i] = <<>>
                /\ amended[i] = 0
                /\ NothingAppended(i)
                /\ pc[i] \in {"eb_wait", "done"}
                /\ pc[i] = "done" => ret[i] \in Answers(i, 1, args[i].stream)

\* a truncated SDK answer handed back although continuation was asked for
C10_Witness ==
    /\ pc[1] = "done" /\ ebCalls[1] # <<>>
    /\ args[1].auto_concat_truncate
    /\ ret[1].kind = "envelope" /\ ret[1].env.is_truncated
    /\ calls[1] = <<>>

-----------------------------------------------------------------------------
(* C11 *)

AutoConcat(i) == OnExecutorPath(i) /\ args[i].auto_concat_truncate

\* the answer ends with is_truncated = false
EndsComplete(r) ==
    \/ r.kind = "envelope" /\ ~r.env.is_truncated
    \/ r.kind = "stream" /\ r.items # <<>> /\ ~Last(r.items).is_truncated

\* answer k of invocation i is one the loop reads the flag of (any answer of
\* the non-streaming path, a continuation answer of the streaming path) and it
\* ends with is_truncated = false
CompleteAt(i, k) ==
    /\ AutoConcat(i)
    /\ k \in 1..Len(received[i])
    /\ args[i].stream => k >= 2
    /\ EndsComplete(received[i][k])

\* C11: with auto_concat_truncate, no executor call is issued after a call
\* whose answer ends with is_truncated = false, and once such an answer has
\* arrived the sequence completes: do/ado returns, the producer is exhausted.
C11_CompletesAtFirstCompleteAnswer ==
    /\ [](\A i \in Inv : \A k \in 1..Len(received[i]) :
            CompleteAt(i, k) => Len(calls[i]) = k)
    /\ \A i \in Inv : CompleteAt(i, Len(received[i])) ~> (pc[i] = "done")

\* a producer exhausted by its third call, the second having ended truncated
C11_Witness ==
    /\ pc[1] = "done" /\ StreamConcat(1)
    /\ Len(calls[1]) = 3
    /\ received[1][2].items # <<>> /\ Last(received[1][2].items).is_truncated
    /\ CompleteAt(1, 3)

-----------------------------------------------------------------------------
(* C12: resp.body["result"] is written on the non-streaming path only, once, on
   the complete envelope that do / ado returns: a write implies that the
   invocation has returned the envelope of its last, complete answer; a
   non-streaming invocation that returned after a continuation round wrote
   exactly once; a truncated envelope held by the loop, every envelope of a
   producer and every unwritten returned envelope carry the executor's own
   result. *)
Unamended(e) == e.result = Frag(e.id[1], e.id[2], e.id[3])

C12_AmendsOnlyTheReturnedEnvelope ==
    \A i \in Inv :
        /\ amended[i] <= 1
        /\ amended[i] = 1 =>
              /\ NonStreamConcat(i) /\ pc[i] = "done" /\ ret[i].kind = "envelope"
              /\ Last(received[i]).kind = "envelope"
              /\ ~Last(received[i]).env.is_truncated
              /\ ret[i].env.id = Last(received[i]).env.id
        /\ (NonStreamConcat(i) /\ pc[i] = "done" /\ Len(calls[i]) >= 2) => amended[i] = 1
        /\ (NonStreamConcat(i) /\ pc[i] \in {"loop", "cont_wait"}) =>
              Unamended(frame[i].resp.env)
        /\ (OnExecutorPath(i) /\ amended[i] = 0 /\ ret[i].kind = "envelope") =>
              Unamended(ret[i].env)
        /\ \A k \in 1..Len(emitted[i]) : Unamended(emitted[i][k])

C12_Witness ==
    /\ NonStreamConcat(1) /\ pc[1] = "done" /\ Len(calls[1]) = 3
    /\ received[1][2].env.is_truncated
    /\ amended[1] = 1
    /\ ~Unamended(ret[1].env)

-----------------------------------------------------------------------------
(* C13: with auto_concat_truncate, the working buffer of an invocation that
   has issued K continuation calls is its contents at the first call followed
   by K pairs, each an Assistant entry and then a User entry with content
   "继续"; its length is the first length plus 2K; and the messages of
   continuation request k are still the first 2(k-1) added entries of it, so
   no entry was changed, moved or removed after it was sent. *)
WorkingBuffer(i) == heap[frame[i].msgs]

\* the working buffer when the first call was made
FirstBuffer(i) == CallerInput(objType[frame[i].msgs])

Rounds(i) == Len(calls[i]) - 1

C13_RoundAppendsOnePair ==
    \A i \in Inv :
        (AutoConcat(i) /\ frame[i].msgs # NoObj) =>
            LET buf == WorkingBuffer(i)
                n == Len(FirstBuffer(i))
            IN  /\ Len(buf) = n + 2 * Rounds(i)
                /\ SubSeq(buf, 1, n) = FirstBuffer(i)
                /\ \A k \in 1..Rounds(i) :
                      /\ RoleValue(buf[n + 2 * k - 1].role) = "assistant"
                      /\ RoleValue(buf[n + 2 * k].role) = "user"
                      /\ buf[n + 2 * k].content = ContinuePrompt
                      /\ calls[i][k + 1].messages = SubSeq(buf, 1, n + 2 * k)

C13_Witness ==
    /\ StreamConcat(1) /\ Rounds(1) = 2
    /\ objType[frame[1].msgs] = "list"
    /\ Len(WorkingBuffer(1)) = Len(CallerDicts) + 4
    /\ WorkingBuffer(1)[5] = [role |-> "user", content |-> ContinuePrompt]

-----------------------------------------------------------------------------
(* C14: the Assistant entry added in round k holds the text of answer k alone,
   the result of the envelope or the results of the stream's envelopes in
   order, and cur_content is empty while call k+1 is awaited. *)
AnswerText(i, k) == ConcatResults(Items(received[i][k]))

C14_AssistantHoldsLastAnswerOnly ==
    \A i \in Inv :
        (AutoConcat(i) /\ frame[i].msgs # NoObj) =>
            /\ \A k \in 1..Rounds(i) :
                  WorkingBuffer(i)[Len(FirstBuffer(i)) + 2 * k - 1].content
                      = AnswerText(i, k)
            /\ pc[i] \in {"cont_wait", "gen_wait"} => frame[i].cur_content = ""

\* the second round of a producer after two streams of two envelopes each
C14_Witness ==
    /\ StreamConcat(1) /\ Rounds(1) = 2 /\ pc[1] = "gen_wait"
    /\ Len(received[1][1].items) = 2 /\ Len(received[1][2].items) = 2
    /\ WorkingBuffer(1)[Len(FirstBuffer(1)) + 3].content = Frag(1, 2, 1) \o Frag(1, 2, 2)

-----------------------------------------------------------------------------
(* C15: the calls of one invocation are sequential: at most one issued call is
   unanswered, and every call before the last issued one was answered and, if
   answered with a stream, had every envelope of that stream handed on by the
   producer before the next call was issued. *)
EmittedOf(i, k) == SelectSeq(emitted[i], LAMBDA e : e.id[2] = k)

AnswerConsumed(i, k) ==
    /\ k <= Len(received[i])
    /\ received[i][k].kind = "stream" => EmittedOf(i, k) = received[i][k].items

C15_CallsAreSequential ==
    \A i \in Inv :
        /\ Len(received[i]) <= Len(calls[i])
        /\ Len(calls[i]) <= Len(received[i]) + 1
        /\ \A k \in 1..(Len(calls[i]) - 1) : AnswerConsumed(i, k)

\* the third call of a producer is awaited after two streams of two envelopes
C15_Witness ==
    /\ StreamConcat(1) /\ pc[1] = "gen_wait"
    /\ Len(calls[1]) = 3 /\ Len(received[1]) = 2
    /\ Len(received[1][1].items) = 2 /\ Len(received[1][2].items) = 2
    /\ Len(emitted[1]) = 4

-----------------------------------------------------------------------------
(* C16: every call of an invocation carries the model, endpoint, retry count,
   timeout, backoff factor and extra parameters the caller passed, and every
   continuation call the stream mode of the first call; only the messages
   differ from one call to the next. *)
SameButMessages(q1, q2) ==
    /\ q1.model = q2.model /\ q1.endpoint = q2.endpoint
    /\ q1.stream = q2.stream /\ q1.retry_count = q2.retry_count
    /\ q1.request_timeout = q2.request_timeout
    /\ q1.backoff_factor = q2.backoff_factor /\ q1.extra = q2.extra

C16_ContinuationCallsKeepParameters ==
    \A i \in Inv :
        \A k \in 1..Len(calls[i]) :
            /\ SameButMessages(calls[i][k], calls[i][1])
            /\ calls[i][k].model = args[i].model
            /\ calls[i][k].stream = args[i].stream
            /\ Parameters(calls[i][k]) = Parameters(args[i])
            /\ k >= 2 => calls[i][k].messages # calls[i][k - 1].messages

\* a caller's own parameters on the second continuation call of do
C16_Witness ==
    /\ args[1].variant = "do" /\ NonStreamConcat(1)
    /\ Parameters(args[1]) = OwnParameters
    /\ Len(calls[1]) = 3
    /\ calls[1][3].retry_count = OwnParameters.retry_count

-----------------------------------------------------------------------------
(* C17: do and ado, run side by side on equal arguments, equal messages and
   the same answers, behave alike.  Whenever both have taken the same answers
   and neither has a step of its own left, they stand at the same place; and
   whenever they stand at the same place after the same answers, they have
   issued the same requests (messages, parameters and the kind of messages
   object passed), yielded and returned the same envelopes, written the body
   as often, and hold messages objects and local variables of equal
   contents. *)
ObjKind(o) == o[1]

RequestSeen(q) == [q EXCEPT !.messagesObj = ObjKind(q.messagesObj)]

FrameSeen(f) ==
    [f EXCEPT !.kwargs_messages = ObjKind(f.kwargs_messages), !.msgs = ObjKind(f.msgs)]

Observed(i) ==
    [calls |-> [k \in 1..Len(calls[i]) |-> RequestSeen(calls[i][k])],
     ebCalls |-> [k \in 1..Len(ebCalls[i]) |-> RequestSeen(ebCalls[i][k])],
     emitted |-> emitted[i], ret |-> ret[i], amended |-> amended[i],
     frame |-> FrameSeen(frame[i]),
     caller |-> <<objType[CallerOf(i)], heap[CallerOf(i)]>>,
     tolist |-> <<objType[ToListObj(i)], heap[ToListObj(i)]>>,
     copy |-> <<objType[CopyObj(i)], heap[CopyObj(i)]>>]

\* invocation i waits for an answer, has ended, or stands at the last round explored
AtRest(i) ==
    \/ pc[i] \in {"eb_wait", "first_wait", "cont_wait", "gen_wait", "done", "raised"}
    \/ /\ pc[i] \in {"loop", "gen_loop"}
       /\ frame[i].is_truncated
       /\ Rounds(i) >= RoundCap(args[i].stream)

\* the answers invocation i has been given, the SDK's included
Answered(i) ==
    Len(received[i]) + (IF pc[i] = "done" /\ ebCalls[i] # <<>> THEN 1 ELSE 0)

C17_DoAndAdoBehaveAlike ==
    Paired =>
        /\ \A k \in 1..Len(received[1]) :
              k <= Len(received[2]) => received[1][k] = received[2][k]
        /\ (AtRest(1) /\ AtRest(2) /\ Answered(1) = Answered(2)) => pc[1] = pc[2]
        /\ (pc[1] = pc[2] /\ Answered(1) = Answered(2) /\ frame[1].idx = frame[2].idx)
              => Observed(1) = Observed(2)

\* both producers have handed on the two streams and stand at the second round
C17_Witness ==
    /\ Paired /\ StreamConcat(1) /\ StreamConcat(2)
    /\ args[1].variant = "do" /\ args[2].variant = "ado"
    /\ pc[1] = "gen_loop" /\ pc[2] = "gen_loop"
    /\ Len(calls[1]) = 2 /\ Len(calls[2]) = 2
    /\ Len(emitted[1]) = 2 /\ emitted[1] = emitted[2]
    /\ heap[Caller] = heap[Caller2] /\ Len(heap[Caller]) = 3

-----------------------------------------------------------------------------
(* C18: with auto_concat_truncate, an answer that lacks a key the protocol
   depends on, result or is_truncated of the envelope of a non-streaming
   call, result of any envelope or is_truncated of the last envelope of a
   stream, ends the invocation raised: it is the last call issued, and the
   invocation is either still handing on the envelopes before the faulty one
   or has raised. *)
LacksNeededKey(r) ==
    \/ r.kind = "envelope" /\ KeyError(r.env, {"result", "is_truncated"})
    \/ /\ r.kind = "stream"
       /\ \/ \E j \in 1..Len(r.items) : KeyError(r.items[j], {"result"})
          \/ r.items # <<>> /\ KeyError(Last(r.items), {"is_truncated"})

C18_MalformedEnvelopeFails ==
    \A i \in Inv :
        AutoConcat(i) =>
            /\ \A k \in 1..Len(received[i]) :
                  LacksNeededKey(received[i][k]) =>
                      /\ Len(calls[i]) = k
                      /\ pc[i] \in {"gen_first", "gen_cont", "raised"}
            /\ \A k \in 1..Len(emitted[i]) : ~KeyError(emitted[i][k], {"result"})

-----------------------------------------------------------------------------
(* C19: the messages of every request handed to self._do / self._ado, first
   or continuation, are a list of {role, content} records, whatever the
   caller passed. *)
RecordList(q) ==
    /\ q.messagesType = "list"
    /\ \A k \in 1..Len(q.messages) : q.messages[k].role \in {"user", "assistant"}

C19_RequestsCarryRecordLists ==
    \A i \in Inv : \A k \in 1..Len(calls[i]) : RecordList(calls[i][k])

-----------------------------------------------------------------------------
(* C20: the loop has no round limit of its own.  While every answer so far is
   truncated, an envelope with is_truncated or a stream whose last envelope
   has it, and no call has failed, the invocation has neither returned
   (finished, for a producer) nor raised: it is taking the latest answer or
   has issued, or is about to issue, one more call than it has answers. *)
EndsTruncated(r) ==
    \/ r.kind = "envelope" /\ r.env.is_truncated
    \/ r.kind = "stream" /\ r.items # <<>> /\ Last(r.items).is_truncated

AlwaysTruncated(i) ==
    \A k \in 1..Len(received[i]) : EndsTruncated(received[i][k])

C20_NoRoundLimit ==
    \A i \in Inv :
        (AutoConcat(i) /\ AlwaysTruncated(i)) =>
            /\ pc[i] \notin {"done", "raised"}
            /\ pc[i] \in {"first_wait", "cont_wait", "gen_wait"}
                  => Len(calls[i]) = Len(received[i]) + 1
            /\ pc[i] \in {"loop", "gen_loop"} => frame[i].is_truncated

\* as many rounds as are explored, every answer truncated, and still looping
C20_Witness ==
    /\ NonStreamConcat(1) /\ AlwaysTruncated(1)
    /\ Rounds(1) = MaxRounds /\ Len(received[1]) = MaxRounds + 1
    /\ pc[1] = "loop" /\ frame[1].is_truncated

-----------------------------------------------------------------------------
(* C21: on the streaming path a continuation call answered with a stream of
   no envelopes does not end the producer: while that answer is the latest,
   the producer has not finished and its truncation state is still true; and
   the round that follows it appended an Assistant entry with empty content
   and then User "继续". *)
EmptyContinuation(i, k) ==
    /\ k \in 2..Len(received[i])
    /\ received[i][k].kind = "stream"
    /\ received[i][k].items = <<>>

C21_EmptyStreamKeepsTruncated ==
    \A i \in Inv :
        StreamConcat(i) =>
            \A k \in 2..Len(received[i]) :
                EmptyContinuation(i, k) =>
                    /\ Len(calls[i]) = k =>
                          /\ pc[i] \in {"gen_cont", "gen_loop"}
                          /\ frame[i].is_truncated
                    /\ Len(calls[i]) > k =>
                          LET at == Len(FirstBuffer(i)) + 2 * k IN
                          /\ WorkingBuffer(i)[at - 1].content = ""
                          /\ RoleValue(WorkingBuffer(i)[at - 1].role) = "assistant"
                          /\ RoleValue(WorkingBuffer(i)[at].role) = "user"
                          /\ WorkingBuffer(i)[at].content = ContinuePrompt

\* the round after an empty continuation stream has been issued
C21_Witness ==
    /\ StreamConcat(1) /\ EmptyContinuation(1, 2)
    /\ Len(calls[1]) = 3 /\ pc[1] = "gen_wait"
    /\ WorkingBuffer(1)[Len(FirstBuffer(1)) + 3].content = ""
    /\ calls[1][3].messages = WorkingBuffer(1)
====
